---- MODULE Spec2Model ----
(***************************************************************************)
(* Workflow core of llm-stock-team-analyzer: the LangGraph state machine   *)
(* built by GraphSetup.setup_graph, the routers of ConditionalLogic, and   *)
(* the analyst / researcher / trader nodes, run from the state made by     *)
(* Propagator.create_initial_state.                                        *)
(*                                                                         *)
(* Text is modelled by what the code does with it.  Report and decision    *)
(* texts are short strings ("" is the empty text).  Debate text (history,  *)
(* bull_history, bear_history, current_response, investment_plan) is a     *)
(* sequence of lines, as text.split("\n") yields them; a line is           *)
(* [tag, len]: the speaker tag it starts with ("bull" for the prefix of    *)
(* bull_node's argument, "bear" for bear_node's, "plan" for the header of  *)
(* the investment plan, "none" otherwise) and its length in characters,    *)
(* the tag included.  The empty text is the one empty untagged line.       *)
(***************************************************************************)
EXTENDS Integers, Sequences, FiniteSets, TLC

VARIABLES
    selected_analysts,        \* ConditionalLogic.selected_analysts (configuration)
    max_debate_rounds,        \* ConditionalLogic.max_debate_rounds (configuration)
    graph_nodes,              \* nodes of the workflow setup_graph has built
    llm_tool_turns,           \* LLM script: most tool-call turns it asks of one analyst
    llm_lens,                 \* LLM script: lengths of the researchers' replies
    pc,                       \* node the graph executes next
    steps,                    \* node executions so far in this run
    trace,                    \* names of the nodes executed so far, in order
    ret,                      \* value the last router call returned
    messages,                 \* state["messages"]
    market_report,            \* state["market_report"]
    news_report,              \* state["news_report"]
    investment_debate_state,  \* state["investment_debate_state"]
    investment_plan,          \* state["investment_plan"]
    plan_seen,                \* investment_plan the Trader node read
    trader_investment_plan,   \* state["trader_investment_plan"]
    final_trade_decision,     \* state["final_trade_decision"]
    sender,                   \* state["sender"]
    analysis_complete_announced, \* state["_analysis_complete_announced"]
    phase,                    \* state["_phase"]
    call,                     \* operation called outside the graph, with its arguments
    frame,                    \* local variables of the operation in progress
    result                    \* what the operation returned or raised

vars == <<selected_analysts, max_debate_rounds, graph_nodes, llm_tool_turns, llm_lens, pc,
          steps, trace, ret, messages, market_report, news_report,
          investment_debate_state, investment_plan, plan_seen,
          trader_investment_plan, final_trade_decision, sender,
          analysis_complete_announced, phase, call, frame, result>>

dataflow_vars == <<call, frame, result>>

\* What no node and no router of the graph writes.
config_vars == <<selected_analysts, max_debate_rounds, graph_nodes, llm_tool_turns, llm_lens,
                 dataflow_vars>>

trader_vars == <<plan_seen, trader_investment_plan, final_trade_decision, sender>>

(***************************************************************************)
(* Bounds of the model and constants of the program.                       *)
(***************************************************************************)
MaxR == 3               \* max_debate_rounds ranges over 0..MaxR
MaxToolTurns == 2       \* tool-call turns per analyst in the varied runs
LongToolTurns == 50     \* tool-call turns per analyst in the long runs
ShortLen == 1           \* length of a short researcher reply
LongLen == 2000         \* length of a long researcher reply
MaxProbeCount == 7      \* counters of the router's inputs range over 0..MaxProbeCount
MaxSelection == 2       \* analyst selections given to setup_graph have 0..MaxSelection names

max_recur_limit == 100      \* Propagator.__init__ default
max_history_chars == 3500   \* bull_node / bear_node
max_rounds == 2             \* bull_node / bear_node, "Should match the config"
TagLen == 6                 \* len("看多分析師：") = len("看空分析師：")
PlanHeaderLen == 9          \* len("研究團隊多空攻防：")

valid_analysts == {"market", "news"}

\* Selections setup_graph accepts, without repetition, in every order.
Selections == {<<"market">>, <<"news">>, <<"market", "news">>, <<"news", "market">>}

ReportTexts == {"", "report"}
DecisionTexts == {"", "BUY"}

(***************************************************************************)
(* Text as lines.                                                          *)
(***************************************************************************)
EmptyText == <<[tag |-> "none", len |-> 0]>>

RECURSIVE SumLensTo(_, _)
SumLensTo(s, i) == IF i = 0 THEN 0 ELSE s[i].len + SumLensTo(s, i - 1)

SumLens(s) == SumLensTo(s, Len(s))

\* len(text): the characters of the lines and the "\n" between them.
TextLen(s) == SumLens(s) + Len(s) - 1

\* a + "\n" + b
JoinNl(a, b) == a \o b

IsStatement(line) == line.tag \in {"bull", "bear"}

\* Lines j.. of a text lie within text[-n:] when they and the "\n" between
\* them take at most n characters.
WithinLast(s, j, n) == TextLen(SubSeq(s, j, Len(s))) <= n

\* The history a researcher works with.  Over max_history_chars the code takes
\* history[-max_history_chars:], splits it at "\n" and keeps the lines from the
\* first one that starts with a speaker tag; the line the cut falls in has lost
\* its tag, so that first line is the first statement lying wholly within the
\* last max_history_chars characters.  When no line starts with a tag the
\* history stays whole.
TruncateHistory(history) ==
    IF TextLen(history) > max_history_chars
    THEN LET starts == {j \in 1..Len(history) :
                            /\ IsStatement(history[j])
                            /\ WithinLast(history, j, max_history_chars)}
         IN  IF starts = {} THEN history
             ELSE SubSeq(history, CHOOSE i \in starts : \A j \in starts : i <= j,
                         Len(history))
    ELSE history

\* tag + response.content, the content one line of n characters
Argument(tag, n) == <<[tag |-> tag, len |-> TagLen + n]>>

\* f"研究團隊多空攻防：\n{debate_history}"
PlanOf(debate_history) == JoinNl(<<[tag |-> "plan", len |-> PlanHeaderLen]>>, debate_history)

(***************************************************************************)
(* Node names.                                                             *)
(***************************************************************************)
AnalystNode(a) == IF a = "market" THEN "Market Analyst" ELSE "News Analyst"
ToolsNode(a) == IF a = "market" THEN "tools_market" ELSE "tools_news"
ClearNode(a) == IF a = "market" THEN "Msg Clear Market" ELSE "Msg Clear News"

\* Mutant: every Clear node goes on to the Analysis Phase Checker.
AfterClear_to_checker(sel, a) == "Analysis Phase Checker"

\* Edge out of an analyst's Clear node: the next selected analyst, or the
\* Analysis Phase Checker after the last one.
AfterClear(sel, a) ==
    LET i == CHOOSE i \in 1..Len(sel) : sel[i] = a
    IN  IF i < Len(sel) THEN AnalystNode(sel[i + 1]) ELSE "Analysis Phase Checker"

\* The nodes setup_graph adds to the workflow for a selection.
NodesOf(sel) ==
    UNION {{AnalystNode(sel[i]), ClearNode(sel[i]), ToolsNode(sel[i])} : i \in 1..Len(sel)}
    \cup {"Bull Researcher", "Bear Researcher", "Trader", "Analysis Phase Checker"}

(***************************************************************************)
(* ConditionalLogic.                                                       *)
(***************************************************************************)
\* Mutant: the last message's tool_calls attribute tested for presence only.
should_continue_market_has_attribute(msgs) ==
    IF msgs = <<>> THEN "Msg Clear Market"
    ELSE IF msgs[Len(msgs)].type = "ai" THEN "tools_market" ELSE "Msg Clear Market"

should_continue_market(msgs) ==
    IF msgs = <<>> THEN "Msg Clear Market"
    ELSE IF msgs[Len(msgs)].tool_calls THEN "tools_market" ELSE "Msg Clear Market"

\* hasattr(state, "_analysis_complete_announced"): the state is a dict, whose
\* keys are not attributes, so the test is false whatever the dict holds.
hasattr_analysis_complete_announced(announced) == FALSE

\* check_analysis_phase_complete: the value returned and the flags it leaves.
check_analysis_phase_complete(complete, announced, ph) ==
    IF ~hasattr_analysis_complete_announced(announced) /\ complete
    THEN [ret |-> "analysis_complete", announced |-> TRUE, phase |-> "debate"]
    ELSE [ret |-> "continue_analysis", announced |-> announced, phase |-> ph]

should_continue_news(msgs) ==
    IF msgs = <<>> THEN "Msg Clear News"
    ELSE IF msgs[Len(msgs)].tool_calls THEN "tools_news" ELSE "Msg Clear News"

\* Mutant: both reports required, whatever the selection.
are_analysts_complete_all_reports(sel, mreport, nreport) ==
    mreport # "" /\ nreport # ""

are_analysts_complete(sel, mreport, nreport) ==
    LET required_analysts == {sel[i] : i \in 1..Len(sel)}
        completed_analysts ==
            (IF "market" \in required_analysts /\ mreport # "" THEN {"market"} ELSE {})
            \cup (IF "news" \in required_analysts /\ nreport # "" THEN {"news"} ELSE {})
    IN  completed_analysts = required_analysts

\* Mutant: normal completion as soon as either side has reached R.
should_continue_debate_either_side(debate_state, R) ==
    IF debate_state.count >= R * 4 THEN "Trader"
    ELSE IF \/ debate_state.bull_count >= R * 2
            \/ debate_state.bear_count >= R * 2 THEN "Trader"
    ELSE IF \/ debate_state.bull_count >= R
            \/ debate_state.bear_count >= R THEN "Trader"
    ELSE IF debate_state.bull_count <= debate_state.bear_count THEN "Bull Researcher"
    ELSE "Bear Researcher"

\* Mutant: the per-side ceiling left out.
should_continue_debate_no_side_ceiling(debate_state, R) ==
    IF debate_state.count >= R * 4 THEN "Trader"
    ELSE IF /\ debate_state.bull_count >= R
            /\ debate_state.bear_count >= R THEN "Trader"
    ELSE IF debate_state.bull_count <= debate_state.bear_count THEN "Bull Researcher"
    ELSE "Bear Researcher"

\* Mutant: normal completion only once both sides have exceeded R.
should_continue_debate_strict(debate_state, R) ==
    IF debate_state.count >= R * 4 THEN "Trader"
    ELSE IF \/ debate_state.bull_count >= R * 2
            \/ debate_state.bear_count >= R * 2 THEN "Trader"
    ELSE IF /\ debate_state.bull_count > R
            /\ debate_state.bear_count > R THEN "Trader"
    ELSE IF debate_state.bull_count <= debate_state.bear_count THEN "Bull Researcher"
    ELSE "Bear Researcher"

\* Mutant: the tie goes to Bear.
should_continue_debate_bear_on_tie(debate_state, R) ==
    IF debate_state.count >= R * 4 THEN "Trader"
    ELSE IF \/ debate_state.bull_count >= R * 2
            \/ debate_state.bear_count >= R * 2 THEN "Trader"
    ELSE IF /\ debate_state.bull_count >= R
            /\ debate_state.bear_count >= R THEN "Trader"
    ELSE IF debate_state.bull_count < debate_state.bear_count THEN "Bull Researcher"
    ELSE "Bear Researcher"

should_continue_debate(debate_state, R) ==
    LET max_total_rounds == R * 4
        max_individual_rounds == R * 2
    IN  IF debate_state.count >= max_total_rounds THEN "Trader"
        ELSE IF \/ debate_state.bull_count >= max_individual_rounds
                \/ debate_state.bear_count >= max_individual_rounds THEN "Trader"
        ELSE IF /\ debate_state.bull_count >= R
                /\ debate_state.bear_count >= R THEN "Trader"
        ELSE IF debate_state.bull_count <= debate_state.bear_count THEN "Bull Researcher"
        ELSE "Bear Researcher"

(***************************************************************************)
(* Propagator.create_initial_state.                                        *)
(***************************************************************************)
InitDebateState ==
    [history |-> EmptyText, current_response |-> EmptyText, count |-> 0,
     bull_history |-> EmptyText, bear_history |-> EmptyText,
     bull_count |-> 0, bear_count |-> 0, judge_decision |-> ""]

\* A message as a node makes it: no id yet (0); the reducer of
\* state["messages"] gives it one.
HumanMessage(text) == [type |-> "human", content |-> text, tool_calls |-> FALSE, id |-> 0]

RemoveMessage(id) == [type |-> "remove", id |-> id]

IsRemoval(m) == m.type = "remove"

IsMessage(m) == m.type # "remove"

\* The largest id among the messages of a conversation, 0 when it is empty.
MaxId(msgs) ==
    IF msgs = <<>> THEN 0
    ELSE CHOOSE n \in {msgs[k].id : k \in 1..Len(msgs)} :
            \A k \in 1..Len(msgs) : msgs[k].id <= n

\* The reducer of state["messages"]: a message of `left` a removal in `right`
\* names is dropped; a message of `right` whose id a message of `left` has
\* takes its place; the other messages of `right` are appended, those without
\* an id under a fresh one.
add_messages(left, right) ==
    LET removed == {right[k].id : k \in {k \in 1..Len(right) : IsRemoval(right[k])}}
        left_ids == {left[k].id : k \in 1..Len(left)}
        Kept(m) == m.id \notin removed
        IsNew(m) == IsMessage(m) /\ (m.id = 0 \/ m.id \notin left_ids)
        Update(m) ==
            IF \E j \in 1..Len(right) : IsMessage(right[j]) /\ right[j].id = m.id
            THEN right[CHOOSE j \in 1..Len(right) :
                        /\ IsMessage(right[j]) /\ right[j].id = m.id
                        /\ \A i \in 1..Len(right) :
                              IsMessage(right[i]) /\ right[i].id = m.id => i <= j]
            ELSE m
        kept == SelectSeq(left, Kept)
        new == SelectSeq(right, IsNew)
    IN  [k \in 1..Len(kept) |-> Update(kept[k])]
        \o [k \in 1..Len(new) |->
                IF new[k].id = 0 THEN [new[k] EXCEPT !.id = MaxId(left) + k] ELSE new[k]]

create_initial_state ==
    /\ messages = add_messages(<<>>, <<HumanMessage("company")>>)
    /\ investment_debate_state = InitDebateState
    /\ market_report = ""
    /\ news_report = ""
    /\ investment_plan = EmptyText
    /\ plan_seen = EmptyText
    /\ trader_investment_plan = ""
    /\ final_trade_decision = ""
    /\ sender = ""
    /\ analysis_complete_announced = FALSE
    /\ phase = ""

\* The configurations and LLM scripts of the runs: every selection and round
\* limit with few tool turns and both reply lengths, and one configuration whose
\* analyst asks for tools long enough to meet the recursion limit.
Configurations ==
    /\ \/ /\ selected_analysts \in Selections
          /\ max_debate_rounds \in 0..MaxR
          /\ llm_tool_turns = MaxToolTurns
          /\ llm_lens = {ShortLen, LongLen}
       \/ /\ selected_analysts = <<"market">>
          /\ max_debate_rounds = 1
          /\ llm_tool_turns = LongToolTurns
          /\ llm_lens = {ShortLen}

\* No operation outside the graph is in progress.
NoCall == [op |-> "none"]
NoFrame == [op |-> "none"]
NoResult == [kind |-> "none"]

NoDataflow == call = NoCall /\ frame = NoFrame /\ result = NoResult

Init ==
    /\ Configurations
    /\ NoDataflow
    /\ graph_nodes = NodesOf(selected_analysts)
    /\ create_initial_state
    /\ pc = AnalystNode(selected_analysts[1])
    /\ steps = 0
    /\ trace = <<>>
    /\ ret = ""

(***************************************************************************)
(* The run loop: a node executes while the recursion limit allows.         *)
(***************************************************************************)
\* Mutant: a node runs whatever the number of steps taken.
Running_without_limit(node) == pc = node

Running(node) == pc = node /\ steps < max_recur_limit

Executed(node) ==
    /\ steps' = steps + 1
    /\ trace' = Append(trace, node)
    /\ UNCHANGED config_vars

ToolTurnsOf(a) == Cardinality({i \in 1..Len(trace) : trace[i] = ToolsNode(a)})

AIMessage(text, calls) == [type |-> "ai", content |-> text, tool_calls |-> calls, id |-> 0]

ToolMessage(text) == [type |-> "tool", content |-> text, tool_calls |-> FALSE, id |-> 0]

market_analyst_node ==
    /\ Running("Market Analyst")
    /\ \E calls \in BOOLEAN, text \in ReportTexts :
        /\ calls => ToolTurnsOf("market") < llm_tool_turns
        /\ calls => text = ""
        /\ messages' = add_messages(messages, <<AIMessage(text, calls)>>)
        /\ market_report' = IF calls THEN market_report ELSE text
        /\ ret' = should_continue_market(messages')
        /\ pc' = ret'
    /\ Executed("Market Analyst")
    /\ UNCHANGED <<news_report, investment_debate_state, investment_plan,
                   trader_vars, analysis_complete_announced, phase>>

news_analyst_node ==
    /\ Running("News Analyst")
    /\ \E calls \in BOOLEAN, text \in ReportTexts :
        /\ calls => ToolTurnsOf("news") < llm_tool_turns
        /\ calls => text = ""
        /\ messages' = add_messages(messages, <<AIMessage(text, calls)>>)
        /\ news_report' = IF calls THEN news_report ELSE text
        /\ ret' = should_continue_news(messages')
        /\ pc' = ret'
    /\ Executed("News Analyst")
    /\ UNCHANGED <<market_report, investment_debate_state, investment_plan,
                   trader_vars, analysis_complete_announced, phase>>

\* ToolNode: the results of the requested calls are appended; back to the analyst.
tool_node(a) ==
    /\ Running(ToolsNode(a))
    /\ messages' = add_messages(messages, <<ToolMessage("data")>>)
    /\ pc' = AnalystNode(a)
    /\ Executed(ToolsNode(a))
    /\ UNCHANGED <<ret, market_report, news_report, investment_debate_state,
                   investment_plan, trader_vars, analysis_complete_announced, phase>>

tools_market == tool_node("market")

tools_news == tool_node("news")

\* Mutant: the tool results are not removed.
delete_messages_keep_tool_results(a) ==
    /\ Running(ClearNode(a))
    /\ messages' = add_messages(messages,
            SelectSeq([i \in 1..Len(messages) |->
                          IF messages[i].type = "tool" THEN HumanMessage("Continue")
                          ELSE RemoveMessage(messages[i].id)], IsRemoval)
            \o <<HumanMessage("Continue")>>)
    /\ pc' = AfterClear(selected_analysts, a)
    /\ Executed(ClearNode(a))
    /\ UNCHANGED <<ret, market_report, news_report, investment_debate_state,
                   investment_plan, trader_vars, analysis_complete_announced, phase>>

\* create_msg_delete: a removal for every message, then one placeholder.
delete_messages(a) ==
    /\ Running(ClearNode(a))
    /\ messages' = add_messages(messages,
            [i \in 1..Len(messages) |-> RemoveMessage(messages[i].id)]
            \o <<HumanMessage("Continue")>>)
    /\ pc' = AfterClear(selected_analysts, a)
    /\ Executed(ClearNode(a))
    /\ UNCHANGED <<ret, market_report, news_report, investment_debate_state,
                   investment_plan, trader_vars, analysis_complete_announced, phase>>

msg_clear_market == delete_messages("market")

msg_clear_news == delete_messages("news")

\* Mutant: the flag is computed anew on every visit.
analysis_phase_checker_flags_recomputed(complete, announced, ph) ==
    IF complete /\ ~announced
    THEN [announced |-> TRUE, phase |-> "debate"]
    ELSE [announced |-> FALSE, phase |-> ph]

\* The flags after analysis_phase_checker's body, from whether the analysts
\* are complete and the flags before.
analysis_phase_checker_flags(complete, announced, ph) ==
    IF complete /\ ~announced
    THEN [announced |-> TRUE, phase |-> "debate"]
    ELSE [announced |-> announced, phase |-> ph]

\* analysis_phase_checker returns the state it was given, flags set: every key
\* is written back, the messages through their reducer.
analysis_phase_checker_update ==
    /\ analysis_complete_announced' =
            analysis_phase_checker_flags(
                are_analysts_complete(selected_analysts, market_report, news_report),
                analysis_complete_announced, phase).announced
    /\ phase' =
            analysis_phase_checker_flags(
                are_analysts_complete(selected_analysts, market_report, news_report),
                analysis_complete_announced, phase).phase
    /\ messages' = add_messages(messages, messages)
    /\ UNCHANGED <<market_report, news_report, investment_debate_state,
                   investment_plan, trader_vars>>

analysis_phase_checker ==
    /\ Running("Analysis Phase Checker")
    /\ analysis_phase_checker_update
    /\ pc' = "Bull Researcher"
    /\ Executed("Analysis Phase Checker")
    /\ UNCHANGED ret

(***************************************************************************)
(* Researchers.                                                            *)
(***************************************************************************)
\* Mutant: the total counted twice.
bull_debate_state_double_count(debate_state, n) ==
    LET history == TruncateHistory(debate_state.history)
        argument == Argument("bull", n)
    IN  [history |-> JoinNl(history, argument),
         bull_history |-> JoinNl(debate_state.bull_history, argument),
         bear_history |-> debate_state.bear_history,
         current_response |-> argument,
         count |-> debate_state.count + 2,
         bull_count |-> debate_state.bull_count + 1,
         bear_count |-> debate_state.bear_count,
         judge_decision |-> debate_state.judge_decision]

\* bull_node's new_investment_debate_state, for a reply of n characters.
bull_debate_state(debate_state, n) ==
    LET history == TruncateHistory(debate_state.history)
        argument == Argument("bull", n)
    IN  [history |-> JoinNl(history, argument),
         bull_history |-> JoinNl(debate_state.bull_history, argument),
         bear_history |-> debate_state.bear_history,
         current_response |-> argument,
         count |-> debate_state.count + 1,
         bull_count |-> debate_state.bull_count + 1,
         bear_count |-> debate_state.bear_count,
         judge_decision |-> debate_state.judge_decision]

\* bear_node's new_investment_debate_state, for a reply of n characters.
bear_debate_state(debate_state, n) ==
    LET history == TruncateHistory(debate_state.history)
        argument == Argument("bear", n)
    IN  [history |-> JoinNl(history, argument),
         bear_history |-> JoinNl(debate_state.bear_history, argument),
         bull_history |-> debate_state.bull_history,
         current_response |-> argument,
         count |-> debate_state.count + 1,
         bull_count |-> debate_state.bull_count,
         bear_count |-> debate_state.bear_count + 1,
         judge_decision |-> debate_state.judge_decision]

\* investment_plan after bull_node's result is merged into the state whose
\* plan was `plan`: the key is in the result only in the final-round branch.
bull_investment_plan(new_debate_state, plan) ==
    IF /\ new_debate_state.bull_count >= max_rounds
       /\ new_debate_state.bear_count >= max_rounds
    THEN PlanOf(new_debate_state.history)
    ELSE plan

\* The same for bear_node.
bear_investment_plan(new_debate_state, plan) ==
    IF /\ new_debate_state.bull_count >= max_rounds
       /\ new_debate_state.bear_count >= max_rounds
    THEN PlanOf(new_debate_state.history)
    ELSE plan

\* Conditional edge of a researcher: the router's value must be a key of the
\* edge's path map.
Route(value, path_map) == IF value \in path_map THEN value ELSE "ERROR"

bull_node ==
    /\ Running("Bull Researcher")
    /\ \E n \in llm_lens :
        /\ investment_debate_state' = bull_debate_state(investment_debate_state, n)
        /\ investment_plan' = bull_investment_plan(investment_debate_state', investment_plan)
    /\ ret' = should_continue_debate(investment_debate_state', max_debate_rounds)
    /\ pc' = Route(ret', {"Bear Researcher", "Trader"})
    /\ Executed("Bull Researcher")
    /\ UNCHANGED <<messages, market_report, news_report, trader_vars,
                   analysis_complete_announced, phase>>

bear_node ==
    /\ Running("Bear Researcher")
    /\ \E n \in llm_lens :
        /\ investment_debate_state' = bear_debate_state(investment_debate_state, n)
        /\ investment_plan' = bear_investment_plan(investment_debate_state', investment_plan)
    /\ ret' = should_continue_debate(investment_debate_state', max_debate_rounds)
    /\ pc' = Route(ret', {"Bull Researcher", "Trader"})
    /\ Executed("Bear Researcher")
    /\ UNCHANGED <<messages, market_report, news_report, trader_vars,
                   analysis_complete_announced, phase>>

(***************************************************************************)
(* Trader, and the end of a run.                                           *)
(***************************************************************************)
\* Mutant: final_trade_decision is left out of the result.
trader_node_without_decision ==
    /\ Running("Trader")
    /\ plan_seen' = investment_plan
    /\ \E text \in DecisionTexts :
        /\ messages' = add_messages(messages, <<AIMessage(text, FALSE)>>)
        /\ trader_investment_plan' = text
        /\ final_trade_decision' = final_trade_decision
    /\ sender' = "Trader"
    /\ pc' = "END"
    /\ Executed("Trader")
    /\ UNCHANGED <<ret, market_report, news_report, investment_debate_state,
                   investment_plan, analysis_complete_announced, phase>>

trader_node ==
    /\ Running("Trader")
    /\ plan_seen' = investment_plan
    /\ \E text \in DecisionTexts :
        /\ messages' = add_messages(messages, <<AIMessage(text, FALSE)>>)
        /\ trader_investment_plan' = text
        /\ final_trade_decision' = text
    /\ sender' = "Trader"
    /\ pc' = "END"
    /\ Executed("Trader")
    /\ UNCHANGED <<ret, market_report, news_report, investment_debate_state,
                   investment_plan, analysis_complete_announced, phase>>

\* The graph stops a run that has used its recursion_limit with a node pending.
graph_recursion_error ==
    /\ pc \notin {"END", "ABORTED", "ERROR"}
    /\ steps >= max_recur_limit
    /\ pc' = "ABORTED"
    /\ UNCHANGED <<config_vars, steps, trace, ret, messages, market_report,
                   news_report, investment_debate_state, investment_plan,
                   trader_vars, analysis_complete_announced, phase>>

Next ==
    \/ market_analyst_node
    \/ news_analyst_node
    \/ tools_market
    \/ tools_news
    \/ msg_clear_market
    \/ msg_clear_news
    \/ analysis_phase_checker
    \/ bull_node
    \/ bear_node
    \/ trader_node
    \/ graph_recursion_error

Spec == Init /\ [][Next]_vars

\* The graph runs a pending node: one node at a time, to completion.
FairSpec == Spec /\ WF_vars(Next)

(***************************************************************************)
(* propagate: the run of the graph, a node that raises, and what propagate *)
(* hands to its caller.                                                    *)
(***************************************************************************)
LLMNodes == {"Market Analyst", "News Analyst", "Bull Researcher", "Bear Researcher", "Trader"}

RunFrame ==
    UNCHANGED <<config_vars, steps, trace, messages, market_report, news_report,
                investment_debate_state, investment_plan, trader_vars,
                analysis_complete_announced, phase>>

\* The LLM call of the pending node raises: the node returns no update and the
\* exception leaves graph.invoke / graph.stream.
node_failure ==
    /\ pc \in LLMNodes
    /\ steps < max_recur_limit
    /\ pc' = "NODE_FAILED"
    /\ UNCHANGED ret
    /\ RunFrame

\* propagate has no handler around the run of the graph: the exception
\* leaves propagate.
propagate_raises ==
    /\ pc = "NODE_FAILED"
    /\ pc' = "propagate raised"
    /\ UNCHANGED ret
    /\ RunFrame

\* After the run: propagate returns the final state and the signal, NO_SIGNAL
\* when final_trade_decision is empty.
propagate_returns ==
    /\ pc = "END"
    /\ ret' = IF final_trade_decision # "" THEN final_trade_decision ELSE "NO_SIGNAL"
    /\ pc' = "propagate returned"
    /\ RunFrame

NextPropagate == Next \/ node_failure \/ propagate_raises \/ propagate_returns

SpecPropagate == Init /\ [][NextPropagate]_vars

(***************************************************************************)
(* Construction: TradingAgentsGraph.__init__ ends with setup_graph.        *)
(***************************************************************************)
AnalystNames == {"market", "news", "social"}

\* Selections given to setup_graph: no name, or names without repetition,
\* valid or not.
SetupSelections ==
    {sel \in UNION {[1..n -> AnalystNames] : n \in 0..MaxSelection} :
        \A i, j \in 1..Len(sel) : sel[i] = sel[j] => i = j}

InitSetup ==
    /\ \/ /\ selected_analysts \in SetupSelections
          /\ max_debate_rounds \in 0..MaxR
          /\ llm_tool_turns = MaxToolTurns
          /\ llm_lens = {ShortLen, LongLen}
       \/ /\ selected_analysts = <<"market">>
          /\ max_debate_rounds = 1
          /\ llm_tool_turns = LongToolTurns
          /\ llm_lens = {ShortLen}
    /\ graph_nodes = {}
    /\ NoDataflow
    /\ create_initial_state
    /\ pc = "setup_graph"
    /\ steps = 0
    /\ trace = <<>>
    /\ ret = ""

SetupFrame ==
    UNCHANGED <<selected_analysts, max_debate_rounds, llm_tool_turns, llm_lens,
                dataflow_vars, steps, trace, ret, messages, market_report, news_report,
                investment_debate_state, investment_plan, trader_vars,
                analysis_complete_announced, phase>>

\* Mutant: the names of the selection are not validated.
setup_graph_no_name_check ==
    /\ pc = "setup_graph"
    /\ IF Len(selected_analysts) = 0
       THEN pc' = "ValueError" /\ graph_nodes' = graph_nodes
       ELSE /\ graph_nodes' = NodesOf(selected_analysts)
            /\ pc' = AnalystNode(selected_analysts[1])
    /\ SetupFrame

\* setup_graph: the selection is checked, then the nodes and edges are made;
\* the run then starts at the first selected analyst.
setup_graph ==
    /\ pc = "setup_graph"
    /\ IF Len(selected_analysts) = 0
       THEN pc' = "ValueError" /\ graph_nodes' = graph_nodes
       ELSE IF \E i \in 1..Len(selected_analysts) : selected_analysts[i] \notin valid_analysts
       THEN pc' = "ValueError" /\ graph_nodes' = graph_nodes
       ELSE /\ graph_nodes' = NodesOf(selected_analysts)
            /\ pc' = AnalystNode(selected_analysts[1])
    /\ SetupFrame

SpecSetup == InitSetup /\ [][setup_graph \/ Next]_vars

(***************************************************************************)
(* The routers as functions: applied to arbitrary inputs.                  *)
(***************************************************************************)
BoolText(b) == IF b THEN "True" ELSE "False"

ProbeDebateStates ==
    {[InitDebateState EXCEPT !.bull_count = b, !.bear_count = r, !.count = c] :
        b \in 0..MaxProbeCount, r \in 0..MaxProbeCount, c \in 0..(2 * MaxProbeCount)}

\* Conversations the checker is applied to: what a Clear node leaves, and
\* that with a further message.
ProbeConversations ==
    {add_messages(<<>>, <<HumanMessage("Continue")>>),
     add_messages(<<>>, <<HumanMessage("Continue"), AIMessage("report", FALSE)>>)}

\* A state without the key "investment_debate_state".
NoDebateState == [missing |-> TRUE]

\* Conversations an analyst's router is applied to: none, and those ending
\* with a response without and with tool calls.
ProbeRouterConversations ==
    {<<>>,
     add_messages(<<>>, <<HumanMessage("company"), AIMessage("report", FALSE)>>),
     add_messages(<<>>, <<HumanMessage("company"), AIMessage("", TRUE)>>),
     add_messages(<<>>, <<HumanMessage("company"), AIMessage("", TRUE),
                          ToolMessage("data"), AIMessage("", FALSE)>>)}

InitProbe ==
    /\ graph_nodes = {}
    /\ NoDataflow
    /\ llm_tool_turns = 0
    /\ llm_lens = {}
    /\ steps = 0
    /\ trace = <<>>
    /\ ret = ""
    /\ investment_plan = EmptyText
    /\ plan_seen = EmptyText
    /\ trader_investment_plan = ""
    /\ final_trade_decision = ""
    /\ sender = ""
    /\ analysis_complete_announced = FALSE
    /\ phase = ""
    /\ \/ /\ pc \in {"call analysis_phase_checker", "call check_analysis_phase_complete"}
          /\ selected_analysts \in Selections
          /\ max_debate_rounds = 1
          /\ investment_debate_state = InitDebateState
          /\ market_report \in ReportTexts
          /\ news_report \in ReportTexts
          /\ messages \in ProbeConversations
       \/ /\ pc = "call should_continue_debate"
          /\ messages = <<>>
          /\ selected_analysts = <<"market", "news">>
          /\ max_debate_rounds \in 0..MaxR
          /\ investment_debate_state \in ProbeDebateStates \cup {NoDebateState}
          /\ market_report = ""
          /\ news_report = ""
       \/ /\ pc \in {"call should_continue_market", "call should_continue_news"}
          /\ messages \in ProbeRouterConversations
          /\ selected_analysts = <<"market", "news">>
          /\ max_debate_rounds = 1
          /\ investment_debate_state = InitDebateState
          /\ market_report = ""
          /\ news_report = ""
       \/ /\ pc = "call are_analysts_complete"
          /\ messages = <<>>
          /\ selected_analysts \in Selections
          /\ max_debate_rounds = 1
          /\ investment_debate_state = InitDebateState
          /\ market_report \in ReportTexts
          /\ news_report \in ReportTexts

ProbeFrame ==
    UNCHANGED <<config_vars, steps, trace, messages, market_report, news_report,
                investment_debate_state, investment_plan, trader_vars,
                analysis_complete_announced, phase>>

\* should_continue_debate first puts an initial debate state into a state
\* that has none.
call_should_continue_debate ==
    /\ pc = "call should_continue_debate"
    /\ investment_debate_state' =
            IF investment_debate_state = NoDebateState THEN InitDebateState
            ELSE investment_debate_state
    /\ ret' = should_continue_debate(investment_debate_state', max_debate_rounds)
    /\ pc' = "returned should_continue_debate"
    /\ UNCHANGED <<config_vars, steps, trace, messages, market_report, news_report,
                   investment_plan, trader_vars, analysis_complete_announced, phase>>

call_should_continue_market ==
    /\ pc = "call should_continue_market"
    /\ ret' = should_continue_market(messages)
    /\ pc' = "returned should_continue_market"
    /\ ProbeFrame

call_should_continue_news ==
    /\ pc = "call should_continue_news"
    /\ ret' = should_continue_news(messages)
    /\ pc' = "returned should_continue_news"
    /\ ProbeFrame

call_are_analysts_complete ==
    /\ pc = "call are_analysts_complete"
    /\ ret' = BoolText(are_analysts_complete(selected_analysts, market_report, news_report))
    /\ pc' = "returned are_analysts_complete"
    /\ ProbeFrame

CheckerCalls ==
    {"call analysis_phase_checker", "analysis_phase_checker returned once",
     "analysis_phase_checker returned twice"}

\* analysis_phase_checker applied to a state, and again to the state it returned.
call_analysis_phase_checker ==
    /\ pc \in CheckerCalls
    /\ analysis_phase_checker_update
    /\ pc' = CASE pc = "call analysis_phase_checker" -> "analysis_phase_checker returned once"
              [] pc = "analysis_phase_checker returned once"
                    -> "analysis_phase_checker returned twice"
              [] OTHER -> "analysis_phase_checker returned three times"
    /\ UNCHANGED <<config_vars, steps, trace, ret>>

CheckCalls ==
    {"call check_analysis_phase_complete", "check_analysis_phase_complete returned once",
     "check_analysis_phase_complete returned twice"}

\* check_analysis_phase_complete called on a state, and again on the state it left.
call_check_analysis_phase_complete ==
    /\ pc \in CheckCalls
    /\ ret' = check_analysis_phase_complete(
                  are_analysts_complete(selected_analysts, market_report, news_report),
                  analysis_complete_announced, phase).ret
    /\ analysis_complete_announced' = check_analysis_phase_complete(
                  are_analysts_complete(selected_analysts, market_report, news_report),
                  analysis_complete_announced, phase).announced
    /\ phase' = check_analysis_phase_complete(
                  are_analysts_complete(selected_analysts, market_report, news_report),
                  analysis_complete_announced, phase).phase
    /\ pc' = CASE pc = "call check_analysis_phase_complete"
                    -> "check_analysis_phase_complete returned once"
              [] pc = "check_analysis_phase_complete returned once"
                    -> "check_analysis_phase_complete returned twice"
              [] OTHER -> "check_analysis_phase_complete returned three times"
    /\ UNCHANGED <<config_vars, steps, trace, messages, market_report, news_report,
                   investment_debate_state, investment_plan, trader_vars>>

NextProbe ==
    \/ call_should_continue_debate
    \/ call_should_continue_market
    \/ call_should_continue_news
    \/ call_are_analysts_complete
    \/ call_analysis_phase_checker
    \/ call_check_analysis_phase_complete

SpecProbe == InitProbe /\ [][NextProbe]_vars

(***************************************************************************)
(* Operations outside the graph: the Toolkit's data operations             *)
(* (dataflows/interface.py), the Google News client, the moving averages   *)
(* of dataflows/indicators.py and run_analysis of main.py.  `call` is the  *)
(* operation with its arguments and with what the outside world answers,   *)
(* `frame` its local variables, `result` what it returned or raised.       *)
(* Texts are named by the fixed part of the f-string that builds them;     *)
(* "" is the empty text.                                                   *)
(***************************************************************************)
Returned(value) == [kind |-> "returned", value |-> value]

Raised(exception, args) == [kind |-> "raised", exception |-> exception, args |-> args]

\* list(supported_indicators.keys()): the keys in the order of the dict.
supported_indicators ==
    <<"close_5_ema", "close_10_ema", "close_20_sma", "close_50_sma", "close_200_sma",
      "macd", "macd_5_13_9", "macds", "macdh", "rsi", "rsi_7",
      "boll", "boll_10_1.5", "boll_20_2", "boll_ub", "boll_lb",
      "kdj", "kdj_5", "atr", "atr_10", "vwma", "obv", "adx", "mfi">>

\* indicator in supported_indicators
IsSupported(indicator) ==
    \E i \in 1..Len(supported_indicators) : supported_indicators[i] = indicator

\* Indicator names a request carries: the supported ones and others.
RequestedIndicators ==
    {supported_indicators[i] : i \in 1..Len(supported_indicators)}
        \cup {"unknown_indicator", "close_50_SMA", ""}

\* What YFinanceService.get_stock_data answers: no frame, an empty frame, a
\* frame of rows, a frame the indicator cannot be computed from, an exception.
StockDataOutcomes == {"None", "empty", "rows", "malformed", "raises"}

\* The text get_stock_stats_indicators_window returns once the name is
\* accepted (the body of its try block).
indicator_report(c) ==
    IF ~c.dates_valid \/ c.stock_data = "raises" THEN "Error calculating indicator"
    ELSE IF c.stock_data \in {"None", "empty"} THEN "No data available"
    ELSE IF c.stock_data = "malformed" THEN "Failed to calculate indicator"
    ELSE "## indicator values"

get_stock_price_data(c) ==
    IF ~c.dates_valid \/ c.stock_data = "raises" THEN "Error retrieving data"
    ELSE IF c.stock_data \in {"None", "empty"} THEN "No data found for symbol"
    ELSE "# Stock data"

\* ScrapingConfig(): the configuration of GoogleNewsClient() in getNewsData.
ScrapingConfig == [max_pages |-> 1, max_articles |-> 3]

MaxPages == 2           \* max_pages ranges over 0..MaxPages
MaxArticles == 3        \* config.max_articles ranges over 0..MaxArticles
MaxPageArticles == 2    \* a page holds 0..MaxPageArticles articles

ScrapingConfigs == [max_pages : 0..MaxPages, max_articles : 0..MaxArticles]

\* NewsSearchResult.create_empty
create_empty == [articles |-> <<>>, total_results |-> 0, pages_scraped |-> 0]

\* What one pass of the loop of search_news meets: a page with its articles
\* and its next-page link, or an exception of the request or of the parser.
PageOutcomes ==
    [kind : {"page"}, articles : 0..MaxPageArticles, has_next : BOOLEAN]
        \cup [kind : {"RateLimitError", "ScrapingError", "Exception"},
              articles : {0}, has_next : {FALSE}]

NoResponse == [kind |-> "none", articles |-> 0, has_next |-> FALSE]

\* The articles parsed from page number page: n of them.
extract_articles_from_page(page, n) == [k \in 1..n |-> [page |-> page, index |-> k]]

\* A value of a pandas column: NaN, or the quotient num / den.
NaN == [nan |-> TRUE, num |-> 0, den |-> 1]

Quotient(num, den) == [nan |-> FALSE, num |-> num, den |-> den]

\* Series.rolling(window).sum() as pandas computes it: a running sum that takes
\* row i in and, once the window is full, row i - window out.
RECURSIVE roll_sum(_, _, _)
roll_sum(close, window, i) ==
    IF i = 0 THEN 0
    ELSE roll_sum(close, window, i - 1) + close[i]
            - (IF i > window THEN close[i - window] ELSE 0)

\* The number of rows in the window that ends at row i.
roll_nobs(window, i) == IF i > window THEN window ELSE i

\* Mutant: a mean as soon as the window holds one row (min_periods = 1).
rolling_mean_min_periods_one(close, window) ==
    [i \in 1..Len(close) |->
        IF roll_nobs(window, i) >= 1
        THEN Quotient(roll_sum(close, window, i), roll_nobs(window, i))
        ELSE NaN]

\* Series.rolling(window=window).mean(): min_periods is the window.
rolling_mean(close, window) ==
    [i \in 1..Len(close) |->
        IF roll_nobs(window, i) >= window
        THEN Quotient(roll_sum(close, window, i), roll_nobs(window, i))
        ELSE NaN]

calculate_moving_averages(df) ==
    [column \in DOMAIN df \cup {"5ma", "10ma", "20ma"} |->
        IF column = "5ma" THEN rolling_mean(df["close"], 5)
        ELSE IF column = "10ma" THEN rolling_mean(df["close"], 10)
        ELSE IF column = "20ma" THEN rolling_mean(df["close"], 20)
        ELSE df[column]]

MaxRows == 21           \* data frames have 0..MaxRows rows

\* Close prices: a constant series, a rising one, an uneven one.
ClosePatterns == {"constant", "rising", "uneven"}

ClosePrice(pattern, i) ==
    IF pattern = "constant" THEN 100
    ELSE IF pattern = "rising" THEN 10 + 2 * i
    ELSE 1 + ((i * i) % 7)

DataFrames ==
    {[column \in {"close"} |-> [i \in 1..n |-> ClosePrice(pattern, i)]] :
        n \in 0..MaxRows, pattern \in ClosePatterns}

max_retries == 3        \* run_analysis
wait_unit == 60         \* run_analysis: wait_time = 60 * retry_count
MaxChunks == 2          \* an attempt streams 0..MaxChunks chunks before it ends

\* str(e) of an exception an attempt raises, with what run_analysis tests of it.
ErrorMessages ==
    {[text |-> "Error code: 429", has_429 |-> TRUE, has_rate_limit |-> FALSE],
     [text |-> "Rate limit reached", has_429 |-> FALSE, has_rate_limit |-> TRUE],
     [text |-> "Connection error", has_429 |-> FALSE, has_rate_limit |-> FALSE]}

\* How an attempt (one graph.graph.stream) ends.
AttemptOutcomes == {"clean", "KeyboardInterrupt", "Exception"}

\* final_state = {}
EmptyState == [attempt |-> 0, chunk |-> 0]

Calls ==
    [op : {"get_stockstats_indicators_report"}, indicator : RequestedIndicators,
     dates_valid : BOOLEAN, stock_data : StockDataOutcomes]
    \cup [op : {"get_YFin_data"}, dates_valid : BOOLEAN, stock_data : StockDataOutcomes]
    \cup [op : {"get_google_news"}, dates_valid : BOOLEAN, max_pages : {0},
          config : {ScrapingConfig}]
    \cup [op : {"search_news"}, dates_valid : BOOLEAN, max_pages : 0..MaxPages,
          config : ScrapingConfigs]
    \cup [op : {"calculate_moving_averages"}, df : DataFrames]
    \cup [op : {"run_analysis"}, setup_ok : BOOLEAN]

InitCalls ==
    /\ selected_analysts = <<"market", "news">>
    /\ max_debate_rounds = 1
    /\ llm_tool_turns = MaxToolTurns
    /\ llm_lens = {ShortLen}
    /\ graph_nodes = NodesOf(selected_analysts)
    /\ create_initial_state
    /\ call \in Calls
    /\ frame = NoFrame
    /\ result = NoResult
    /\ pc = "call"
    /\ steps = 0
    /\ trace = <<>>
    /\ ret = ""

\* The operations take their arguments and touch no field of the graph state.
DataflowFrame ==
    UNCHANGED <<selected_analysts, max_debate_rounds, graph_nodes, llm_tool_turns,
                llm_lens, steps, trace, ret, messages, market_report, news_report,
                investment_debate_state, investment_plan, trader_vars,
                analysis_complete_announced, phase>>

\* Mutant: the price data is fetched before the name is looked at.
get_stock_stats_indicators_window_fetch_first ==
    /\ pc = "call"
    /\ call.op = "get_stockstats_indicators_report"
    /\ frame' = [stock_data |-> call.stock_data]
    /\ IF ~IsSupported(call.indicator)
       THEN /\ result' = Raised("ValueError", supported_indicators)
            /\ pc' = "raised"
       ELSE /\ result' = result
            /\ pc' = "YFinanceService.get_stock_data"
    /\ UNCHANGED call
    /\ DataflowFrame

\* get_stock_stats_indicators_window up to its try block: the name is looked up
\* in supported_indicators and an unknown one raises.
get_stock_stats_indicators_window ==
    /\ pc = "call"
    /\ call.op = "get_stockstats_indicators_report"
    /\ frame' = [stock_data |-> "not fetched"]
    /\ IF ~IsSupported(call.indicator)
       THEN /\ result' = Raised("ValueError", supported_indicators)
            /\ pc' = "raised"
       ELSE /\ result' = result
            /\ pc' = "YFinanceService.get_stock_data"
    /\ UNCHANGED call
    /\ DataflowFrame

\* The try block: the dates, the price data, the indicator, the report.
indicators_window_report ==
    /\ pc = "YFinanceService.get_stock_data"
    /\ call.op = "get_stockstats_indicators_report"
    /\ frame' = [stock_data |-> IF call.dates_valid THEN call.stock_data ELSE "not fetched"]
    /\ result' = Returned(indicator_report(call))
    /\ pc' = "returned"
    /\ UNCHANGED call
    /\ DataflowFrame

call_get_stock_price_data ==
    /\ pc = "call"
    /\ call.op = "get_YFin_data"
    /\ frame' = [stock_data |-> IF call.dates_valid THEN call.stock_data ELSE "not fetched"]
    /\ result' = Returned(get_stock_price_data(call))
    /\ pc' = "returned"
    /\ UNCHANGED call
    /\ DataflowFrame

\* get_google_news parses curr_date outside any handler, then getNewsData
\* searches with the dates it formatted; search_news validates its dates and
\* sets up the loop.
search_news_start ==
    /\ pc = "call"
    /\ call.op \in {"get_google_news", "search_news"}
    /\ IF ~call.dates_valid
       THEN /\ result' = Raised(IF call.op = "get_google_news" THEN "ValueError"
                                ELSE "InvalidDateFormatError", <<>>)
            /\ frame' = frame
            /\ pc' = "raised"
       ELSE /\ frame' = [max_pages |-> IF call.max_pages # 0 THEN call.max_pages
                                       ELSE call.config.max_pages,
                         page |-> 0, response |-> NoResponse, result |-> create_empty]
            /\ result' = result
            /\ pc' = "search_news loop"
    /\ UNCHANGED call
    /\ DataflowFrame

\* Mutant: the articles of a page are all added, whatever the limit.
search_news_page_no_article_limit ==
    /\ pc = "search_news loop"
    /\ frame.page < frame.max_pages
    /\ \E o \in PageOutcomes :
        LET articles == extract_articles_from_page(frame.page, o.articles)
        IN  IF o.kind # "page" \/ articles = <<>>
            THEN /\ frame' = [frame EXCEPT !.response = o]
                 /\ pc' = "search_news done"
            ELSE /\ frame' = [frame EXCEPT !.response = o,
                                           !.result.articles = @ \o articles,
                                           !.result.pages_scraped = frame.page + 1,
                                           !.page = IF o.has_next THEN @ + 1 ELSE @]
                 /\ pc' = IF o.has_next THEN "search_news loop" ELSE "search_news done"
    /\ UNCHANGED <<call, result>>
    /\ DataflowFrame

\* One pass of the while loop of search_news.
search_news_page ==
    /\ pc = "search_news loop"
    /\ frame.page < frame.max_pages
    /\ \E o \in PageOutcomes :
        LET articles == extract_articles_from_page(frame.page, o.articles)
            current_total == Len(frame.result.articles)
            remaining_slots == call.config.max_articles - current_total
        IN  IF o.kind # "page" \/ articles = <<>>
            THEN /\ frame' = [frame EXCEPT !.response = o]
                 /\ pc' = "search_news done"
            ELSE IF current_total + Len(articles) > call.config.max_articles
            THEN /\ frame' = [frame EXCEPT !.response = o,
                                           !.result.articles =
                                               @ \o SubSeq(articles, 1, remaining_slots),
                                           !.result.pages_scraped = frame.page + 1]
                 /\ pc' = "search_news done"
            ELSE /\ frame' = [frame EXCEPT !.response = o,
                                           !.result.articles = @ \o articles,
                                           !.result.pages_scraped = frame.page + 1,
                                           !.page = IF o.has_next THEN @ + 1 ELSE @]
                 /\ pc' = IF o.has_next THEN "search_news loop" ELSE "search_news done"
    /\ UNCHANGED <<call, result>>
    /\ DataflowFrame

\* After the loop: search_news counts the articles and returns the result;
\* getNewsData turns it into a list and get_google_news formats the list.
search_news_return ==
    /\ \/ pc = "search_news loop" /\ frame.page >= frame.max_pages
       \/ pc = "search_news done"
    /\ frame' = [frame EXCEPT !.result.total_results = Len(frame.result.articles)]
    /\ result' = IF call.op = "search_news" THEN Returned(frame'.result)
                 ELSE IF Len(frame.result.articles) = 0 THEN Returned("")
                 ELSE Returned("## query Google News")
    /\ pc' = "returned"
    /\ UNCHANGED call
    /\ DataflowFrame

call_calculate_moving_averages ==
    /\ pc = "call"
    /\ call.op = "calculate_moving_averages"
    /\ result' = Returned(calculate_moving_averages(call.df))
    /\ pc' = "returned"
    /\ UNCHANGED <<call, frame>>
    /\ DataflowFrame

\* run_analysis up to its while loop: the graph and the initial state.
run_analysis_setup ==
    /\ pc = "call"
    /\ call.op = "run_analysis"
    /\ IF ~call.setup_ok
       THEN /\ result' = Returned(EmptyState)
            /\ frame' = frame
            /\ pc' = "returned"
       ELSE /\ frame' = [final_state |-> EmptyState, retry_count |-> 0, attempts |-> 0,
                         waits |-> <<>>, last |-> "none", complete |-> FALSE]
            /\ result' = result
            /\ pc' = "while"
    /\ UNCHANGED call
    /\ DataflowFrame

\* One pass of the while loop of run_analysis: an attempt streams chunks into
\* final_state and ends cleanly, by an interrupt or by an exception.
run_analysis_attempt ==
    /\ pc = "while"
    /\ IF frame.retry_count < max_retries
       THEN \E chunks \in 0..MaxChunks, outcome \in AttemptOutcomes, e \in ErrorMessages :
            LET final_state == IF chunks = 0 THEN frame.final_state
                               ELSE [attempt |-> frame.attempts + 1, chunk |-> chunks]
                retry_count == frame.retry_count + 1
                tried == [frame EXCEPT !.final_state = final_state, !.attempts = @ + 1]
            IN  IF outcome = "clean"
                THEN /\ frame' = [tried EXCEPT !.last = "clean"]
                     /\ result' = result
                     /\ pc' = "after while"
                ELSE IF outcome = "KeyboardInterrupt"
                THEN /\ frame' = [tried EXCEPT !.last = "interrupted"]
                     /\ result' = Returned(final_state)
                     /\ pc' = "returned"
                ELSE IF e.has_429 \/ e.has_rate_limit
                THEN IF retry_count < max_retries
                     THEN /\ frame' = [tried EXCEPT !.last = "rate limit",
                                         !.retry_count = retry_count,
                                         !.waits = Append(@, wait_unit * retry_count)]
                          /\ result' = result
                          /\ pc' = "while"
                     ELSE /\ frame' = [tried EXCEPT !.last = "rate limit exceeded",
                                         !.retry_count = retry_count]
                          /\ result' = Returned(final_state)
                          /\ pc' = "returned"
                ELSE /\ frame' = [tried EXCEPT !.last = "error"]
                     /\ result' = Returned(final_state)
                     /\ pc' = "returned"
       ELSE /\ pc' = "after while"
            /\ UNCHANGED <<frame, result>>
    /\ UNCHANGED call
    /\ DataflowFrame

\* After the loop: "Analysis Complete!" and the return of final_state.
run_analysis_complete ==
    /\ pc = "after while"
    /\ frame' = [frame EXCEPT !.complete = TRUE]
    /\ result' = Returned(frame.final_state)
    /\ pc' = "returned"
    /\ UNCHANGED call
    /\ DataflowFrame

NextCalls ==
    \/ get_stock_stats_indicators_window
    \/ indicators_window_report
    \/ call_get_stock_price_data
    \/ search_news_start
    \/ search_news_page
    \/ search_news_return
    \/ call_calculate_moving_averages
    \/ run_analysis_setup
    \/ run_analysis_attempt
    \/ run_analysis_complete

SpecCalls == InitCalls /\ [][NextCalls]_vars

(***************************************************************************)
(* Properties.                                                             *)
(***************************************************************************)
R == max_debate_rounds
bull_count == investment_debate_state.bull_count
bear_count == investment_debate_state.bear_count
count == investment_debate_state.count

IsDebateNode(node) == node \in {"Bull Researcher", "Bear Researcher", "Trader"}

\* The debate part of the run: the researcher and Trader nodes executed, in order.
DebateTrace == SelectSeq(trace, IsDebateNode)

IsPrefix(a, b) == Len(a) <= Len(b) /\ a = SubSeq(b, 1, Len(a))

ToolTurns == Cardinality({i \in 1..Len(trace) : trace[i] \in {"tools_market", "tools_news"}})

Max(a, b) == IF a >= b THEN a ELSE b

\* Node steps the run takes given the tool turns seen so far: two nodes per tool
\* turn, Analyst and Clear per selected analyst, the checker, the debate, Trader.
NeededSteps == 2 * ToolTurns + 2 * Len(selected_analysts) + 1 + Max(1, 2 * R) + 1

\* C1, as claimed: whenever should_continue_debate routes to Trader both
\* counters have reached R, and count <= 4*R in every reachable state.
C1_Original ==
    /\ ret = "Trader" => bull_count >= R /\ bear_count >= R
    /\ count <= 4 * R

\* C1, amended: whenever should_continue_debate routes to Trader both counters
\* have reached R; count <= 4*R in every reachable state when R >= 1, and
\* count <= 1 when R = 0 (Bull opens the debate whatever R is).
C1_DebateBounds ==
    /\ ret = "Trader" => bull_count >= R /\ bear_count >= R
    /\ R >= 1 => count <= 4 * R
    /\ R = 0 => count <= 1

C1_Witness == ret = "Trader" /\ R = 3 /\ bull_count = 3 /\ bear_count = 3 /\ pc = "Trader"

\* A run that ended at End: Trader executed last, after at most 4*R researcher
\* utterances when R >= 1 and after one utterance when R = 0.
EndedAtEnd ==
    /\ pc = "END"
    /\ trace[Len(trace)] = "Trader"
    /\ count <= Max(1, 4 * R)
    /\ R = 0 => count = 1

\* A run the recursion limit stopped: it needs more than max_recur_limit steps.
EndedAtLimit == pc = "ABORTED" /\ NeededSteps > max_recur_limit

EndedAsClaimed == pc = "END" /\ trace[Len(trace)] = "Trader" /\ count <= 4 * R

\* C2, as claimed, of a run that has ended: it executed Trader and then reached
\* End, after at most 4*R researcher utterances.
C2_Original == pc \in {"END", "ABORTED"} => EndedAsClaimed

\* C2, amended: every run ends.  A run the recursion limit stops needs more
\* than max_recur_limit node steps; every other run executes Trader last and
\* reaches End, after at most 4*R researcher utterances when R >= 1 and after
\* one utterance when R = 0.
C2_Termination == <>(EndedAtEnd \/ EndedAtLimit)

C2_Witness == pc = "END" /\ R = 2 /\ count = 4 /\ trace[Len(trace)] = "Trader"

\* The policy of C3, in its priority order.
ReferencePolicy(b, r, c, rounds) ==
    CASE c >= 4 * rounds -> "Trader"
      [] c < 4 * rounds /\ (b >= 2 * rounds \/ r >= 2 * rounds) -> "Trader"
      [] c < 4 * rounds /\ b < 2 * rounds /\ r < 2 * rounds
         /\ b >= rounds /\ r >= rounds -> "Trader"
      [] OTHER -> IF b <= r THEN "Bull Researcher" ELSE "Bear Researcher"

\* C3: for all bull_count, bear_count, count and R, should_continue_debate
\* returns what the reference policy gives: hard ceiling, per-side ceiling,
\* normal completion, else Bull on bull_count <= bear_count and Bear otherwise.
C3_ReferencePolicy ==
    pc = "returned should_continue_debate"
        => ret = ReferencePolicy(bull_count, bear_count, count, R)

C3_Witness ==
    /\ pc = "returned should_continue_debate"
    /\ R = 2 /\ count = 3 /\ bull_count = 4 /\ bear_count = 0
    /\ ret = "Trader"

\* C4, as claimed, for R >= 1: whenever the router routes to Trader the
\* investment plan is set, and the Trader node never executes with an empty
\* investment_plan.
C4_TraderHasPlan ==
    R >= 1 =>
        /\ ret = "Trader" => investment_plan # EmptyText
        /\ pc = "END" => plan_seen # EmptyText

LimitsReached ==
    \/ bull_count >= R /\ bear_count >= R
    \/ count >= 4 * R
    \/ bull_count >= 2 * R
    \/ bear_count >= 2 * R

\* C5, as claimed, for R >= 1 and once a researcher has spoken: investment_plan
\* is non-empty if and only if the debate round limits have been reached (both
\* counters at R, or a safety ceiling hit).
C5_PlanIffLimits ==
    R >= 1 /\ count >= 1 => (investment_plan # EmptyText <=> LimitsReached)

\* C6, as claimed: investment_plan is write-once; once it is non-empty no node
\* changes it.
C6_PlanWriteOnce ==
    [][investment_plan # EmptyText => investment_plan' = investment_plan]_vars

\* C7: with R = 1 the debate part of a run is Bull Researcher, Bear
\* Researcher, Trader and nothing else: Trader starts with bull_count =
\* bear_count = 1 after two utterances, and a run that reaches End has executed
\* exactly these three.
C7_MinimalDebate ==
    R = 1 =>
        /\ IsPrefix(DebateTrace, <<"Bull Researcher", "Bear Researcher", "Trader">>)
        /\ pc = "Trader" => bull_count = 1 /\ bear_count = 1 /\ count = 2
        /\ pc = "END" => DebateTrace = <<"Bull Researcher", "Bear Researcher", "Trader">>

C7_Witness ==
    /\ R = 1 /\ pc = "END"
    /\ DebateTrace = <<"Bull Researcher", "Bear Researcher", "Trader">>
    /\ bull_count = 1 /\ bear_count = 1

\* C8, as claimed: should_continue_debate applied to a state with bull_count =
\* bear_count = 0 returns Bull Researcher, and the first researcher node of
\* every run is Bull Researcher.
C8_Original ==
    /\ pc = "returned should_continue_debate" /\ bull_count = 0 /\ bear_count = 0
        => ret = "Bull Researcher"
    /\ DebateTrace # <<>> => DebateTrace[1] = "Bull Researcher"

\* C8, amended: should_continue_debate applied to a state with bull_count =
\* bear_count = 0 returns Bull Researcher when count < 4*R and Trader otherwise
\* (always Trader when R = 0); the first researcher node of every run is Bull
\* Researcher.
C8_BullOpens ==
    /\ pc = "returned should_continue_debate" /\ bull_count = 0 /\ bear_count = 0
        => ret = IF count < 4 * R THEN "Bull Researcher" ELSE "Trader"
    /\ DebateTrace # <<>> => DebateTrace[1] = "Bull Researcher"

C8_Witness ==
    /\ pc = "returned should_continue_debate"
    /\ bull_count = 0 /\ bear_count = 0 /\ count = 0 /\ R = 1
    /\ ret = "Bull Researcher"

ReportOf(a) == IF a = "market" THEN market_report ELSE news_report

\* C9: for every non-empty selection from {market, news}, in any order,
\* are_analysts_complete is true exactly when every selected analyst has a
\* non-empty report; the report of an unselected analyst does not matter.
C9_AnalystsComplete ==
    pc = "returned are_analysts_complete"
        => (ret = "True" <=>
                \A i \in 1..Len(selected_analysts) : ReportOf(selected_analysts[i]) # "")

C9_Witness ==
    /\ pc = "returned are_analysts_complete"
    /\ selected_analysts = <<"market">>
    /\ market_report # "" /\ news_report = ""
    /\ ret = "True"

BullRuns == pc = "Bull Researcher" /\ steps' = steps + 1
BearRuns == pc = "Bear Researcher" /\ steps' = steps + 1

\* C10: a Bull Researcher invocation adds exactly 1 to bull_count and to count
\* and leaves bear_count and bear_history as they were; a Bear Researcher
\* invocation adds exactly 1 to bear_count and to count and leaves bull_count
\* and bull_history as they were; count = bull_count + bear_count always.
C10_CounterFrame ==
    /\ [][BullRuns => /\ bull_count' = bull_count + 1
                      /\ count' = count + 1
                      /\ bear_count' = bear_count
                      /\ investment_debate_state'.bear_history
                            = investment_debate_state.bear_history]_vars
    /\ [][BearRuns => /\ bear_count' = bear_count + 1
                      /\ count' = count + 1
                      /\ bull_count' = bull_count
                      /\ investment_debate_state'.bull_history
                            = investment_debate_state.bull_history]_vars
    /\ [](count = bull_count + bear_count)

C10_Witness == bull_count = 2 /\ bear_count = 1 /\ count = 3 /\ pc = "Bear Researcher"

IsResearcher(node) == node \in {"Bull Researcher", "Bear Researcher"}

SpeakerTag(node) == IF node = "Bull Researcher" THEN "bull" ELSE "bear"

IsBullLine(line) == line.tag = "bull"
IsBearLine(line) == line.tag = "bear"

\* The researcher nodes executed so far, in order: one utterance each.
Utterances == SelectSeq(trace, IsResearcher)

\* The lines of the stored history that start with a speaker tag.
HistoryStatements == SelectSeq(investment_debate_state.history, IsStatement)

\* C11, as claimed: the stored history holds every utterance emitted so far,
\* in emission order, and its lines of either speaker are the statements of
\* bull_history and of bear_history, also once the history has exceeded the
\* truncation window.
C11_HistoryRoundTrip ==
    /\ Len(HistoryStatements) = Len(Utterances)
    /\ \A i \in 1..Len(HistoryStatements) :
            i <= Len(Utterances) => HistoryStatements[i].tag = SpeakerTag(Utterances[i])
    /\ SelectSeq(investment_debate_state.history, IsBullLine)
            = SelectSeq(investment_debate_state.bull_history, IsBullLine)
    /\ SelectSeq(investment_debate_state.history, IsBearLine)
            = SelectSeq(investment_debate_state.bear_history, IsBearLine)

Selected == {selected_analysts[i] : i \in 1..Len(selected_analysts)}

LastMessage(msgs) == msgs[Len(msgs)]

AnalystRuns(a) == pc = AnalystNode(a) /\ steps' = steps + 1

\* The turns of analyst a whose response requested no tool calls: the graph
\* went on to the analyst's Clear node.
FinalTurns(a) ==
    {i \in 1..Len(trace) :
        /\ trace[i] = AnalystNode(a)
        /\ IF i < Len(trace) THEN trace[i + 1] = ClearNode(a)
           ELSE ~LastMessage(messages).tool_calls}

\* C12: a turn of an analyst whose response requests tool calls appends the
\* response to the conversation and leaves the report as it was; a report
\* changes only on a turn of its own analyst without tool calls; each selected
\* analyst has at most one such turn in a run, exactly one in a run that
\* reaches End, and its node never executes after it (it never executes with a
\* response without tool calls in the conversation).
C12_ReportWriteOnce ==
    /\ [][\A a \in valid_analysts :
            AnalystRuns(a) /\ LastMessage(messages').tool_calls
                => /\ market_report' = market_report
                   /\ news_report' = news_report
                   /\ messages' = Append(messages, LastMessage(messages'))]_vars
    /\ [][market_report' # market_report
            => AnalystRuns("market") /\ ~LastMessage(messages').tool_calls]_vars
    /\ [][news_report' # news_report
            => AnalystRuns("news") /\ ~LastMessage(messages').tool_calls]_vars
    /\ [][\A a \in valid_analysts :
            AnalystRuns(a) => \A k \in 1..Len(messages) :
                                 messages[k].type = "ai" => messages[k].tool_calls]_vars
    /\ [](\A a \in Selected :
            /\ Cardinality(FinalTurns(a)) <= 1
            /\ \A i \in FinalTurns(a) :
                    \A j \in (i + 1)..Len(trace) : trace[j] # AnalystNode(a))
    /\ [](pc = "END" => \A a \in Selected : Cardinality(FinalTurns(a)) = 1)

C12_Witness ==
    /\ pc = "END" /\ selected_analysts = <<"market", "news">>
    /\ market_report = "report" /\ news_report = "report"
    /\ ToolTurnsOf("market") = 2 /\ ToolTurnsOf("news") = 1

\* C13, as claimed: whenever the Bull Researcher node executes, every selected
\* analyst has a non-empty report (are_analysts_complete is true), whatever
\* the analysts' final responses contain.
C13_DebateAfterReports ==
    [][BullRuns => are_analysts_complete(selected_analysts, market_report, news_report)]_vars

IsAnalystPhaseNode(node) ==
    \E a \in valid_analysts : node \in {AnalystNode(a), ToolsNode(a), ClearNode(a)}

OwnerOf(node) ==
    CHOOSE a \in valid_analysts : node \in {AnalystNode(a), ToolsNode(a), ClearNode(a)}

Position(a) == CHOOSE i \in 1..Len(selected_analysts) : selected_analysts[i] = a

\* The nodes the fixed phases allow right after a node.
AllowedNext(node) ==
    IF IsAnalystPhaseNode(node)
    THEN IF node = AnalystNode(OwnerOf(node))
            THEN {ToolsNode(OwnerOf(node)), ClearNode(OwnerOf(node))}
         ELSE IF node = ToolsNode(OwnerOf(node))
            THEN {AnalystNode(OwnerOf(node))}
         ELSE IF Position(OwnerOf(node)) < Len(selected_analysts)
            THEN {AnalystNode(selected_analysts[Position(OwnerOf(node)) + 1])}
         ELSE {"Analysis Phase Checker"}
    ELSE IF node = "Analysis Phase Checker" THEN {"Bull Researcher"}
    ELSE IF IsResearcher(node) THEN {"Bull Researcher", "Bear Researcher", "Trader"}
    ELSE IF node = "Trader" THEN {"END"}
    ELSE {}

IsClearNode(node) == node \in {ClearNode(a) : a \in valid_analysts}

TimesExecuted(node) == Cardinality({i \in 1..Len(trace) : trace[i] = node})

\* C14: a run starts at the first selected analyst; only nodes of selected
\* analysts execute; every node is followed by a node its phase allows (a
\* tools node by its own analyst, a Clear node by the next selected analyst or
\* by the Analysis Phase Checker after the last one, the checker by Bull
\* Researcher, a researcher by a researcher or Trader, Trader by End); a run
\* that reaches End has executed the Clear nodes of the selected analysts in
\* the configured order, the checker once and Trader once.
C14_NodeOrder ==
    /\ trace # <<>> => trace[1] = AnalystNode(selected_analysts[1])
    /\ \A i \in 1..Len(trace) :
            IsAnalystPhaseNode(trace[i]) => OwnerOf(trace[i]) \in Selected
    /\ \A i \in 1..(Len(trace) - 1) : trace[i + 1] \in AllowedNext(trace[i])
    /\ trace # <<>> /\ pc # "ABORTED" => pc \in AllowedNext(trace[Len(trace)])
    /\ pc = "END" =>
            /\ SelectSeq(trace, IsClearNode)
                    = [i \in 1..Len(selected_analysts) |-> ClearNode(selected_analysts[i])]
            /\ TimesExecuted("Analysis Phase Checker") = 1
            /\ TimesExecuted("Trader") = 1

C14_Witness ==
    /\ pc = "END" /\ selected_analysts = <<"news", "market">>
    /\ TimesExecuted("tools_news") = 2 /\ TimesExecuted("tools_market") = 1
    /\ TimesExecuted("Bear Researcher") = 2

ClearRuns(a) == pc = ClearNode(a) /\ steps' = steps + 1

\* C15: after a Msg Clear node runs the conversation is exactly one
\* placeholder message, whatever it held before, and the reports and every
\* other field of the state are as they were.
C15_MsgClear ==
    [][\A a \in valid_analysts :
        ClearRuns(a) =>
            /\ Len(messages') = 1
            /\ messages'[1].type = "human" /\ messages'[1].content = "Continue"
            /\ UNCHANGED <<market_report, news_report, investment_debate_state,
                           investment_plan, trader_investment_plan,
                           final_trade_decision, sender,
                           analysis_complete_announced, phase>>]_vars

C15_Witness ==
    /\ trace # <<>> /\ trace[Len(trace)] = "Msg Clear Market"
    /\ TimesExecuted("tools_market") = 2
    /\ Len(messages) = 1 /\ messages[1].content = "Continue"
    /\ market_report = "report"

CheckerRuns == pc = "Analysis Phase Checker" /\ steps' = steps + 1

CheckerApplied == CheckerRuns \/ (pc \in CheckerCalls /\ pc' # pc)

\* C16: the Analysis Phase Checker applied to a state whose analysis-complete
\* flag is already true, once or twice, changes no field of the state; as a
\* node of the graph it always hands control to Bull Researcher.
C16_CheckerIdempotent ==
    /\ [][CheckerApplied /\ analysis_complete_announced
            => UNCHANGED <<messages, market_report, news_report,
                           investment_debate_state, investment_plan,
                           trader_investment_plan, final_trade_decision, sender,
                           analysis_complete_announced, phase>>]_vars
    /\ [][CheckerRuns => pc' = "Bull Researcher"]_vars

C16_Witness ==
    /\ pc = "analysis_phase_checker returned three times"
    /\ analysis_complete_announced /\ phase = "debate"
    /\ Len(messages) = 2

CheckCalled == pc \in CheckCalls /\ pc' # pc

\* C17, as claimed: the analysis-complete flag is set only when all selected
\* analysts are complete, it is never reset, and once it is set
\* check_analysis_phase_complete returns continue_analysis on every later call.
C17_AnnouncedOnce ==
    /\ [][~analysis_complete_announced /\ analysis_complete_announced'
            => are_analysts_complete(selected_analysts, market_report, news_report)]_vars
    /\ [][analysis_complete_announced => analysis_complete_announced']_vars
    /\ [][CheckCalled /\ analysis_complete_announced => ret' = "continue_analysis"]_vars

Rejected ==
    \/ Len(selected_analysts) = 0
    \/ \E i \in 1..Len(selected_analysts) : selected_analysts[i] \notin {"market", "news"}

\* C18: with no selected analyst, or with a name outside {market, news},
\* setup_graph ends in ValueError with no node created, and no node of a run
\* ever executes.
C18_SetupRejects ==
    Rejected /\ pc # "setup_graph"
        => pc = "ValueError" /\ graph_nodes = {} /\ steps = 0 /\ trace = <<>>

C18_Witness == pc = "ValueError" /\ selected_analysts = <<>> /\ graph_nodes = {}

TraderRuns == pc = "Trader" /\ steps' = steps + 1

\* C19: the Trader node executes at most once in a run and no node executes
\* after it; its step hands control to End; once it has run,
\* trader_investment_plan and final_trade_decision hold the same text and
\* sender is Trader.
C19_TraderTerminal ==
    /\ [][TraderRuns => pc' = "END"]_vars
    /\ [](TimesExecuted("Trader") <= 1)
    /\ [](\A i \in 1..Len(trace) : trace[i] = "Trader" => i = Len(trace))
    /\ [](TimesExecuted("Trader") = 1 =>
            /\ pc = "END"
            /\ trader_investment_plan = final_trade_decision
            /\ sender = "Trader")

C19_Witness ==
    /\ pc = "END" /\ TimesExecuted("Trader") = 1
    /\ final_trade_decision = "BUY" /\ trader_investment_plan = "BUY"
    /\ sender = "Trader"

\* C20, as claimed: when a node has failed during a run, propagate does not
\* raise: it returns the state accumulated so far, as it is, together with the
\* signal NO_SIGNAL.
C20_PropagateReturnsOnFailure ==
    [][pc = "NODE_FAILED" =>
        /\ pc' = "propagate returned"
        /\ ret' = "NO_SIGNAL"
        /\ UNCHANGED <<messages, market_report, news_report, investment_debate_state,
                       investment_plan, trader_investment_plan,
                       final_trade_decision, sender>>]_vars

RouterCalls ==
    {"call should_continue_debate", "call should_continue_market",
     "call should_continue_news", "call are_analysts_complete"} \cup CheckCalls

RouterCalled == pc \in RouterCalls /\ pc' # pc

\* C21, as claimed: no call of should_continue_debate, should_continue_market,
\* should_continue_news, are_analysts_complete or check_analysis_phase_complete
\* changes a field of the state, and the debate sub-record changes only in a
\* step of the Bull or the Bear Researcher node.
C21_RoutersReadOnly ==
    /\ [][RouterCalled =>
            UNCHANGED <<messages, market_report, news_report, investment_debate_state,
                        investment_plan, trader_investment_plan, final_trade_decision,
                        sender, analysis_complete_announced, phase>>]_vars
    /\ [][investment_debate_state' # investment_debate_state
            => BullRuns \/ BearRuns]_vars

\* The researcher nodes executed, in order.
ResearcherTrace == SelectSeq(trace, IsResearcher)

\* Bull, Bear, Bull, Bear, ... : n utterances.
Alternation(n) ==
    [i \in 1..n |-> IF i % 2 = 1 THEN "Bull Researcher" ELSE "Bear Researcher"]

\* C25: for R >= 1 the researcher nodes execute in strict alternation Bull,
\* Bear, Bull, Bear, ... for exactly 2R utterances; the router routes to Trader
\* only at bull_count = bear_count = R, and the tests count >= 4R and
\* bull_count >= 2R or bear_count >= 2R never succeed.
C25_StrictAlternation ==
    R >= 1 =>
        /\ IsPrefix(ResearcherTrace, Alternation(2 * R))
        /\ pc \in {"Trader", "END"} => ResearcherTrace = Alternation(2 * R)
        /\ ret = "Trader" => bull_count = R /\ bear_count = R
        /\ count < 4 * R /\ bull_count < 2 * R /\ bear_count < 2 * R

C25_Witness ==
    /\ R = 3 /\ pc = "Trader" /\ ret = "Trader"
    /\ ResearcherTrace = Alternation(6)
    /\ bull_count = 3 /\ bear_count = 3

\* The node that ran last.
LastNode == IF trace = <<>> THEN "" ELSE trace[Len(trace)]

\* C26: the value a router returned is a destination registered for the node
\* that just ran: after Bull Researcher only Bear Researcher or Trader, after
\* Bear Researcher only Bull Researcher or Trader, after an analyst only its
\* own tools node or Clear node; no run stops at an unregistered destination.
C26_RegisteredDestination ==
    /\ pc # "ERROR"
    /\ LastNode = "Bull Researcher" => ret \in {"Bear Researcher", "Trader"}
    /\ LastNode = "Bear Researcher" => ret \in {"Bull Researcher", "Trader"}
    /\ \A a \in Selected :
          LastNode = AnalystNode(a) => ret \in {ToolsNode(a), ClearNode(a)}

C26_Witness ==
    /\ LastNode = "Bear Researcher" /\ ret = "Bull Researcher"
    /\ pc = "Bull Researcher" /\ R = 2

\* C27: no run executes more than max_recur_limit node steps; a run the limit
\* stops needs more than max_recur_limit steps and has not executed Trader; a
\* run that needs at most max_recur_limit steps is never stopped.
C27_RecursionLimit ==
    /\ steps <= max_recur_limit
    /\ Len(trace) = steps
    /\ pc = "ABORTED" =>
          /\ NeededSteps > max_recur_limit
          /\ \A i \in 1..Len(trace) : trace[i] # "Trader"
    /\ NeededSteps <= max_recur_limit => pc # "ABORTED"

C27_Witness ==
    /\ pc = "ABORTED" /\ steps = max_recur_limit
    /\ NeededSteps > max_recur_limit

\* C28: with R = 0 Bull Researcher speaks exactly once, the router then routes
\* to Trader with bull_count = 1, bear_count = 0 and count = 1, and Bear
\* Researcher never runs.
C28_ZeroRounds ==
    R = 0 =>
        /\ IsPrefix(DebateTrace, <<"Bull Researcher", "Trader">>)
        /\ LastNode = "Analysis Phase Checker" => pc = "Bull Researcher"
        /\ LastNode = "Bull Researcher" =>
              /\ ret = "Trader" /\ pc = "Trader"
              /\ bull_count = 1 /\ bear_count = 0 /\ count = 1
        /\ pc = "END" =>
              /\ DebateTrace = <<"Bull Researcher", "Trader">>
              /\ bull_count = 1 /\ bear_count = 0 /\ count = 1

C28_Witness ==
    /\ R = 0 /\ pc = "END"
    /\ DebateTrace = <<"Bull Researcher", "Trader">>
    /\ bull_count = 1 /\ bear_count = 0 /\ count = 1

\* The fields of the state the graph shares between its nodes.
SharedState ==
    <<messages, market_report, news_report, investment_debate_state, investment_plan,
      trader_investment_plan, final_trade_decision, sender,
      analysis_complete_announced, phase>>

IndicatorRequest == call.op = "get_stockstats_indicators_report"

UnknownIndicatorRequest == IndicatorRequest /\ ~IsSupported(call.indicator)

\* The names the error lists.
ListedNames == {result.args[i] : i \in 1..Len(result.args)}

UnknownIndicatorRejected ==
    /\ pc = "raised"
    /\ result.kind = "raised"
    /\ result.exception = "ValueError"
    /\ ListedNames = {name \in RequestedIndicators : IsSupported(name)}
    /\ Len(result.args) = Cardinality(ListedNames)
    /\ frame.stock_data = "not fetched"

\* C22: an indicator request whose name is not supported raises an error that
\* lists exactly the names a request is accepted with, each once; no price
\* data has been fetched when it raises; a request with a supported name does
\* not raise; no step of the request changes a field of the shared state.
C22_UnknownIndicator ==
    /\ [](UnknownIndicatorRequest /\ pc # "call" => UnknownIndicatorRejected)
    /\ [](IndicatorRequest /\ IsSupported(call.indicator) => result.kind # "raised")
    /\ [][IndicatorRequest => UNCHANGED SharedState]_vars

C22_Witness ==
    /\ IndicatorRequest /\ call.indicator = "unknown_indicator"
    /\ pc = "raised" /\ result.exception = "ValueError"
    /\ Len(result.args) = 24 /\ frame.stock_data = "not fetched"

\* No price data exists for the symbol and the date range.
NoPriceData ==
    /\ \/ call.op = "get_YFin_data"
       \/ IndicatorRequest /\ IsSupported(call.indicator)
    /\ call.dates_valid
    /\ call.stock_data \in {"None", "empty"}
    /\ pc = "returned"

\* No news was found for the query.
NoNewsFound ==
    /\ call.op = "get_google_news"
    /\ pc = "returned"
    /\ Len(frame.result.articles) = 0

\* C23, as claimed: when no price data exists, or no news is found, the
\* operation returns a non-empty text and raises nothing.
C23_NoDataSentinel ==
    NoPriceData \/ NoNewsFound => result.kind = "returned" /\ result.value # ""

Windows == {5, 10, 20}

ColumnOf(window) ==
    IF window = 5 THEN "5ma" ELSE IF window = 10 THEN "10ma" ELSE "20ma"

\* close[a] + ... + close[b]
RECURSIVE SumRange(_, _, _)
SumRange(close, a, b) == IF a > b THEN 0 ELSE SumRange(close, a, b - 1) + close[b]

MovingAveragesReturned == call.op = "calculate_moving_averages" /\ pc = "returned"

\* The value is the arithmetic mean of the window rows that end at row i.
IsMeanOfLast(value, close, i, window) ==
    /\ ~value.nan
    /\ value.num * window = SumRange(close, i - window + 1, i) * value.den

\* C24: calculate_moving_averages keeps the rows and the close column and adds
\* the columns 5ma, 10ma and 20ma; the column of window w is NaN at each of the
\* first w - 1 rows and the mean of the last w closes at every later row; an
\* empty frame gives an empty frame with the three columns.
C24_MovingAverages ==
    MovingAveragesReturned =>
        /\ result.kind = "returned"
        /\ DOMAIN result.value = {"close", "5ma", "10ma", "20ma"}
        /\ result.value["close"] = call.df["close"]
        /\ \A window \in Windows :
            /\ Len(result.value[ColumnOf(window)]) = Len(call.df["close"])
            /\ \A i \in 1..Len(call.df["close"]) :
                IF i < window THEN result.value[ColumnOf(window)][i].nan
                ELSE IsMeanOfLast(result.value[ColumnOf(window)][i],
                                  call.df["close"], i, window)

C24_Witness ==
    /\ MovingAveragesReturned
    /\ Len(call.df["close"]) = 21
    /\ call.df["close"][21] = 52
    /\ result.value["20ma"][19].nan
    /\ result.value["20ma"][21] = Quotient(660, 20)
    /\ result.value["5ma"][4].nan
    /\ ~result.value["5ma"][5].nan

RunAnalysisStarted == call.op = "run_analysis" /\ call.setup_ok /\ pc # "call"

\* C29, as claimed: the waits before the retries are 60 s, 120 s and 180 s, and
\* the retries are exhausted after max_retries of them; an exception that is
\* no rate-limit error, or the exhausted retries, return final_state without
\* a further attempt; "Analysis Complete" is reported only after an attempt
\* that ended without an exception.
C29_RetryPolicy ==
    RunAnalysisStarted =>
        /\ IsPrefix(frame.waits, <<wait_unit, 2 * wait_unit, 3 * wait_unit>>)
        /\ frame.last = "rate limit exceeded" => Len(frame.waits) = max_retries
        /\ frame.last \in {"rate limit exceeded", "error"} =>
              /\ pc = "returned"
              /\ result = Returned(frame.final_state)
              /\ ~frame.complete
        /\ frame.complete => frame.last = "clean"

NewsSearch ==
    /\ call.op \in {"get_google_news", "search_news"}
    /\ pc \in {"search_news loop", "search_news done", "returned"}

\* The result search_news holds is within the limits.
WithinLimits ==
    /\ Len(frame.result.articles) <= call.config.max_articles
    /\ frame.result.pages_scraped <= frame.max_pages
    /\ frame.page <= frame.max_pages

SearchReturned ==
    /\ result.kind = "returned"
    /\ frame.result.total_results = Len(frame.result.articles)
    /\ call.op = "search_news" => result.value = frame.result

\* A pass of the loop of search_news keeps the articles collected; it ends the
\* search on an exception, an empty page, a page without next-page link, and a
\* page whose articles would exceed the limit; otherwise it moves to the next
\* page.
SearchPass ==
    /\ IsPrefix(frame.result.articles, frame'.result.articles)
    /\ frame'.response.kind # "page" \/ frame'.response.articles = 0 =>
          pc' = "search_news done" /\ frame'.result = frame.result
    /\ \/ ~frame'.response.has_next
       \/ Len(frame.result.articles) + frame'.response.articles
              > call.config.max_articles
       => pc' = "search_news done"
    /\ pc' = "search_news loop" => frame'.page = frame.page + 1

SpecAll == (Init \/ InitProbe) /\ [][Next \/ NextProbe]_vars

====
